---- MODULE Spec2Model ----
(***************************************************************************)
(* A model of the db1mu NES emulation core: the PPU register file and      *)
(* update() (PPU.cpp), the default mapper (mappers.cpp) and the clock-     *)
(* budgeted CPU run loop (cpu6502.h; its bodies are described in spec.md). *)
(***************************************************************************)
EXTENDS Integers, Sequences, FiniteSets, TLC

\* ------------------------------------------------------------------ bounds
\* Register accesses and update() calls explored in one behaviour of SpecPPU.
MaxOps == 4
\* Accesses to the video memory port explored in one behaviour of SpecVram.
MaxVramOps == 6
\* Mapper calls explored in one behaviour of SpecMapper.
MaxMapperOps == 2
\* Steps of the host loop (run, its instructions, update) in one behaviour of Spec.
MaxCpuOps == 10
\* Register writes and update() calls explored in one behaviour of SpecFrame.
MaxFrameOps == 4
\* Calls of the CPU's helpers explored in one behaviour of SpecCpuOps.
MaxHelperOps == 2

\* ------------------------------------------------------------- bit helpers
\* bit<POS>(): 1u << POS
bit(pos) == 2 ^ pos

\* test<POS>(v): (v & (1u << POS)) != 0
test(pos, v) == ((v \div (2 ^ pos)) % 2) = 1

\* c6502_word_t and c6502_byte_t arithmetic is modulo these
WORD == 2 ^ 16
BYTE == 2 ^ 8

\* -------------------------------------------------------------- input sets
\* Bytes the CPU program writes to the PPU registers.
Control1Vals == {4, 128, 160}         \* incr 32, NMI on, NMI + big sprites
Control2Vals == {8, 16}               \* background only, sprites only
ScrollVals   == {3, 7}
AddrVals     == {0, 32, 63}           \* $00, $20, $3F
DataVals     == {85, 170}             \* $55, $AA
OamVals      == {32}
IllegalReads == {"CONTROL1"}          \* a write-only register

\* ------------------------------------------------------------------- state
VARIABLES
    ppu,        \* the PPU's member variables (m_*)
    vram,       \* Bus video memory, sparse: normalised address -> byte (absent = 0)
    sprmem,     \* Bus sprite memory (OAM), sparse: index -> byte (absent = 0)
    mirroring,  \* nametable mirroring of the bound cartridge: "H" or "V"
    nmiPending, \* Bus::generateNMI latch towards the CPU
    aborted,    \* an assert() fired (debug build): the process is gone
    last,       \* the last operation: [op, reg, val, rv]
    events,     \* what the last handler did, in order
    stateReads, \* STATE reads since the last update(), capped at 2
    scrollHist, \* [read: a STATE read happened, writes: SCROLL writes since it (cap 2)]
    addrHist,   \* [msb, a: first byte and address of the last VIDMEM_ADDR pair (or -1),
                \*  reads: VIDMEM_DATA reads since (cap 3)]
    fetched,    \* [now, before: the bytes the last two VIDMEM_DATA reads fetched from video memory]
    left,       \* operations the behaviour may still take
    m_nROMs,    \* DefaultMapper: number of PRG banks
    m_pROM,     \* DefaultMapper: the PRG banks, index 0 .. m_nROMs - 1, each
                \* watched at the offsets ObsOff: offset -> byte
    mres,       \* the last mapper call and how it ended
    crashed,    \* undefined behaviour ended the process
    m_regs,     \* CPU6502::Reg: a, x, y, s, p, pc
    m_state,    \* "HALTED", "RUN" or "ERROR"
    m_penalty,  \* extra clocks of the current instruction
    m_nmiCount, \* NMIs serviced
    ram,        \* CPU RAM, sparse: address -> byte (absent = 0)
    call,       \* the run(clk) call in progress or just returned
    turn,       \* whose call the host makes next: "cpu" (run) or "ppu" (update)
    cop,        \* the last call of a CPU helper (setFlag, push, pop, branchIf):
                \* its arguments, its result and the registers before it
    nmiRequests \* calls of Bus::generateNMI so far

ppuVars == <<ppu, vram, sprmem, mirroring, nmiPending, aborted, last, events,
             stateReads, scrollHist, addrHist, fetched>>
mapVars == <<m_nROMs, m_pROM, mres, crashed>>

cpuVars == <<m_regs, m_state, m_penalty, m_nmiCount, ram, call, turn, cop>>

vars == <<ppuVars, mapVars, cpuVars, nmiRequests, left>>

NoOp == [op |-> "none", reg |-> "none", val |-> 0, rv |-> 0]

Min(a, b) == IF a < b THEN a ELSE b

Registers == {"CONTROL1", "CONTROL2", "STATE", "SPRMEM_ADDR", "SPRMEM_DATA",
              "SCROLL", "VIDMEM_ADDR", "VIDMEM_DATA"}

\* ---------------------------------------------------------------- the bus
\* Bus::readVideoMem / writeVideoMem address decoding: 14-bit PPU space,
\* $3000-$3EFF mirrors $2000-$2EFF, nametables mirrored per the cartridge
\* flag, palette RAM repeated every 32 bytes with $3F10/14/18/1C aliasing
\* $3F00/04/08/0C.
VideoAddr(a) ==
    LET b == a % 16384 IN
    IF b >= 16128
    THEN LET q == b % 32 IN
         16128 + (IF q \in {16, 20, 24, 28} THEN q - 16 ELSE q)
    ELSE IF b >= 8192
    THEN LET n    == (b - 8192) % 4096
             page == n \div 1024
             phys == IF mirroring = "H" THEN page \div 2 ELSE page % 2
         IN  8192 + phys * 1024 + (n % 1024)
    ELSE b

readVideoMem(a) ==
    IF VideoAddr(a) \in DOMAIN vram THEN vram[VideoAddr(a)] ELSE 0

\* (the pattern tables below $2000 are cartridge VROM: a write does not stick)
writeVideoMem(a, v) ==
    IF VideoAddr(a) < 8192 THEN vram
    ELSE [x \in DOMAIN vram \cup {VideoAddr(a)} |->
            IF x = VideoAddr(a) THEN v ELSE vram[x]]

\* Bus::readSpriteMem / writeSpriteMem: direct OAM indexing
readSpriteMem(i) ==
    IF (i % BYTE) \in DOMAIN sprmem THEN sprmem[i % BYTE] ELSE 0

writeSpriteMem(i, v) ==
    [x \in DOMAIN sprmem \cup {i % BYTE} |->
        IF x = i % BYTE THEN v ELSE sprmem[x]]

\* ------------------------------------------------- PPU::readRegister parts
\* case STATE: the byte returned
StateByte(p) ==
      (IF ~p.m_enableWrite THEN bit(4) ELSE 0)
    + (IF p.m_spritesOnLine > 8 THEN bit(5) ELSE 0)
    + (IF p.m_sprite0 THEN bit(6) ELSE 0)
    + (IF p.m_vblank THEN bit(7) ELSE 0)

\* a STATE read that forgets to clear m_vblank
StateReadKeeps(p) == p

\* case STATE: the members after the read
StateReadEffect(p) ==
    IF p.m_vblank THEN [p EXCEPT !.m_vblank = FALSE] ELSE p

\* case VIDMEM_DATA (read): the address after the read
DataReadAddr(p) ==
    IF ~p.m_vramReadError THEN (p.m_vramAddr + p.m_addrIncr) % WORD
    ELSE p.m_vramAddr

\* ------------------------------------------------ PPU::writeRegister parts
\* case CONTROL1
Control1Effect(p, val) ==
    [p EXCEPT !.m_activePage = CASE val % 4 = 0 -> 8192
                                 [] val % 4 = 1 -> 9216
                                 [] val % 4 = 2 -> 10240
                                 [] OTHER       -> 11264,
              !.m_addrIncr   = IF test(2, val) THEN 32 ELSE 1,
              !.m_baSprites  = IF test(3, val) THEN 4096 ELSE 0,
              !.m_baBkgnd    = IF test(4, val) THEN 4096 ELSE 0,
              !.m_bigSprites = test(5, val),
              !.m_enableNMI  = test(7, val)]

\* case CONTROL2
Control2Effect(p, val) ==
    [p EXCEPT !.m_fullBacgroundVisible = test(1, val),
              !.m_allSpritesVisible    = test(2, val),
              !.m_backgroundVisible    = test(3, val),
              !.m_spritesVisible       = test(4, val)]

\* the latch without its shift: m_vramAddr = (m_vramAddr & 0xFF00) | (val & 0xFF)
AddrLatchNoShift(old, val) ==
    (old - (old % BYTE)) + (val % BYTE)

\* case VIDMEM_ADDR: m_vramAddr <<= 8; m_vramAddr = (m_vramAddr & 0xFF00) | (val & 0xFF)
AddrLatch(old, val) ==
    LET shifted == (old * BYTE) % WORD IN
    (shifted - (shifted % BYTE)) + (val % BYTE)

\* case VIDMEM_ADDR: "Read error doesn't happen during palette access"
ReadError(addr) == addr < 16128 \/ addr >= 16160

\* case SCROLL: m_currScrollReg ^= 1, then V if the result is nonzero, else H
ScrollEffect(p, val) ==
    LET t == (p.m_currScrollReg + 1) % 2 IN
    IF t # 0 THEN [p EXCEPT !.m_currScrollReg = t, !.m_scrollV = val]
    ELSE [p EXCEPT !.m_currScrollReg = t, !.m_scrollH = val]

\* ------------------------------------------------------- PPU::buildImage
\* The sprite loop's last statement, m_sprite0 = ns == 0, for ns = from .. 63
RECURSIVE SpriteLoop(_, _)
SpriteLoop(ns, s0) ==
    IF ns >= 64 THEN s0 ELSE SpriteLoop(ns + 1, ns = 0)

\* assert(!m_bigSprites) inside the sprite branch
BuildImageAsserts(p) == p.m_spritesVisible => ~p.m_bigSprites

\* The members after buildImage()
buildImage(p) ==
    LET cleared == [p EXCEPT !.m_sprite0 = FALSE] IN
    IF p.m_spritesVisible
    THEN [cleared EXCEPT !.m_sprite0 = SpriteLoop(0, FALSE)]
    ELSE cleared

\* static const c6502_word_t SCROLL_LAYOUT[2][2]
SCROLL_LAYOUT == <<<<10240, 11264>>, <<8192, 9216>>>>

\* m_bus.getMode()
Modes == {"NTSC", "PAL"}

\* The rows the background loop draws: r = 0 .. 29, without 0 and 29 in NTSC
FirstRow(mode) == IF mode = "NTSC" THEN 1 ELSE 0
RowCount(mode) == IF mode = "NTSC" THEN 28 ELSE 30

\* pageAddr of the tile in row r, column c; SCROLL_LAYOUT[sy / ppc] with
\* sy >= 480 indexes the array past its end: -1 stands for what lies there
TilePage(p, r, c) ==
    LET t  == p.m_scrollV
        l  == p.m_scrollH
        sy == r * 8 + t
        sx == c * 8 + l
    IN  IF t + l = 0 THEN p.m_activePage
        ELSE IF sy \div 240 > 1 THEN -1
        ELSE SCROLL_LAYOUT[(sy \div 240) + 1][(sx \div 256) + 1]

\* The address the tile's character number is read from: pageAddr + indc
TileAddr(p, r, c) ==
    LET psx == (c * 8 + p.m_scrollH) % 256
        psy == (r * 8 + p.m_scrollV) % 240
    IN  TilePage(p, r, c) + (psy \div 8) * 32 + (psx \div 8)

\* The indices [sy / ppc][sx / ppr] into SCROLL_LAYOUT of the tile in row r,
\* column c, taken when t + l is not 0
LayoutIndex(p, r, c) ==
    <<(r * 8 + p.m_scrollV) \div 240, (c * 8 + p.m_scrollH) \div 256>>

\* indc, the tile's index in the character area of its page
TileIndc(p, r, c) ==
    LET psx == (c * 8 + p.m_scrollH) % 256
        psy == (r * 8 + p.m_scrollV) % 240
    IN  (psy \div 8) * 32 + (psx \div 8)

\* inda, the tile's index in the attribute area of its page
TileInda(p, r, c) ==
    LET psx == (c * 8 + p.m_scrollH) % 256
        psy == (r * 8 + p.m_scrollV) % 240
    IN  (psy \div 32) * 8 + (psx \div 32)

\* m_pBackend->setSymbol(Layer::BACKGROUND, x - l % 8, y - t % 8, sym), in
\* the order of the loops over r and c
BackgroundBlits(p, mode) ==
    IF ~p.m_backgroundVisible THEN << >>
    ELSE [k \in 1 .. RowCount(mode) * 32 |->
            LET r == FirstRow(mode) + (k - 1) \div 32
                c == (k - 1) % 32
            IN  [call |-> "setSymbol", layer |-> "BACKGROUND",
                 x |-> c * 8 - (p.m_scrollH % 8), y |-> r * 8 - (p.m_scrollV % 8),
                 src |-> TileAddr(p, r, c)]]

\* The sprite loop counting the entries up: i = ns * 4u
SpriteBlitsForward(p) ==
    IF ~p.m_spritesVisible THEN << >>
    ELSE [k \in 1 .. 64 |->
            LET i == (k - 1) * 4 IN
            [call |-> "setSymbol",
             layer |-> IF test(5, readSpriteMem(i + 2)) THEN "BEHIND" ELSE "FRONT",
             x |-> readSpriteMem(i + 3), y |-> readSpriteMem(i),
             src |-> i \div 4]]

\* m_pBackend->setSymbol(lyr, x, y, sym) for ns = 0 .. 63, i = (63u - ns) * 4u
SpriteBlits(p) ==
    IF ~p.m_spritesVisible THEN << >>
    ELSE [k \in 1 .. 64 |->
            LET i == (63 - (k - 1)) * 4 IN
            [call |-> "setSymbol",
             layer |-> IF test(5, readSpriteMem(i + 2)) THEN "BEHIND" ELSE "FRONT",
             x |-> readSpriteMem(i + 3), y |-> readSpriteMem(i),
             src |-> i \div 4]]

\* The calls buildImage() makes on the rendering backend, in order. It reads
\* the members, OAM and video memory and changes m_sprite0 only, so the calls
\* of the last update() can be told from the state it left.
BackendCalls(p, mode) ==
    <<[call |-> "setBackground", layer |-> "none", x |-> 0, y |-> 0,
       src |-> readVideoMem(16128)]>>
    \o BackgroundBlits(p, mode)
    \o SpriteBlits(p)
    \o <<[call |-> "draw", layer |-> "none", x |-> 0, y |-> 0, src |-> 0]>>

\* How often a call occurs in a handler's sequence of calls
Calls(evs, what) == Cardinality({i \in DOMAIN evs : evs[i] = what})

\* update() with the NMI request made whatever m_enableNMI says
UpdateEventsAlways(p) ==
    <<"vblank:=false", "setBackground", "draw", "vblank:=true", "generateNMI">>

\* The backend and bus calls of update(), in program order
UpdateEvents(p) ==
    <<"vblank:=false", "setBackground", "draw", "vblank:=true">>
    \o (IF p.m_enableNMI THEN <<"generateNMI">> ELSE << >>)

\* ---------------------------------------------------------------- history
NoPair == [msb |-> -1, a |-> -1, reads |-> 0]

Record(op, reg, val, r) ==
    /\ last' = [op |-> op, reg |-> reg, val |-> val, rv |-> r]
    /\ left' = left - 1

CanRun == ~aborted /\ left > 0

\* ------------------------------------------------------------ the actions
ReadSTATE ==
    /\ CanRun
    /\ ppu' = StateReadEffect(ppu)
    /\ Record("read", "STATE", 0, StateByte(ppu))
    /\ events' = << >>
    /\ stateReads' = Min(2, stateReads + 1)
    /\ scrollHist' = [read |-> TRUE, writes |-> 0]
    /\ UNCHANGED <<vram, sprmem, mirroring, nmiPending, aborted, addrHist, fetched, mapVars, cpuVars, nmiRequests>>

ReadSPRMEM_DATA ==
    /\ CanRun
    /\ ppu' = [ppu EXCEPT !.m_sprmemAddr = (@ + 1) % BYTE]
    /\ Record("read", "SPRMEM_DATA", 0, readSpriteMem(ppu.m_sprmemAddr))
    /\ events' = << >>
    /\ UNCHANGED <<vram, sprmem, mirroring, nmiPending, aborted, stateReads,
                   scrollHist, addrHist, fetched, mapVars, cpuVars, nmiRequests>>

ReadVIDMEM_DATA ==
    /\ CanRun
    /\ ppu' = [ppu EXCEPT !.m_vramAddr = DataReadAddr(ppu),
                          !.m_vramReadError = FALSE]
    /\ Record("read", "VIDMEM_DATA", 0, readVideoMem(ppu.m_vramAddr))
    /\ events' = << >>
    /\ fetched' = [now |-> readVideoMem(ppu.m_vramAddr), before |-> fetched.now]
    /\ addrHist' = IF addrHist.a >= 0
                   THEN [addrHist EXCEPT !.reads = Min(3, @ + 1)]
                   ELSE addrHist
    /\ UNCHANGED <<vram, sprmem, mirroring, nmiPending, aborted, stateReads,
                   scrollHist, mapVars, cpuVars, nmiRequests>>

\* default: assert(false && "Illegal PPU register for reading"); a build with
\* assertions stops there, one without returns rv = 0
ReadIllegal(n) ==
    /\ CanRun
    /\ n \notin {"STATE", "SPRMEM_DATA", "VIDMEM_DATA"}
    /\ aborted' \in BOOLEAN
    /\ Record("read", n, 0, 0)
    /\ events' = << >>
    /\ UNCHANGED <<ppu, vram, sprmem, mirroring, nmiPending, stateReads,
                   scrollHist, addrHist, fetched, mapVars, cpuVars, nmiRequests>>

readRegister(n) ==
    \/ n = "STATE" /\ ReadSTATE
    \/ n = "SPRMEM_DATA" /\ ReadSPRMEM_DATA
    \/ n = "VIDMEM_DATA" /\ ReadVIDMEM_DATA
    \/ ReadIllegal(n)

WriteCONTROL1(val) ==
    /\ CanRun
    /\ ppu' = Control1Effect(ppu, val)
    /\ Record("write", "CONTROL1", val, 0)
    /\ events' = << >>
    /\ UNCHANGED <<vram, sprmem, mirroring, nmiPending, aborted, stateReads,
                   scrollHist, addrHist, fetched, mapVars, cpuVars, nmiRequests>>

WriteCONTROL2(val) ==
    /\ CanRun
    /\ ppu' = Control2Effect(ppu, val)
    /\ Record("write", "CONTROL2", val, 0)
    /\ events' = << >>
    /\ UNCHANGED <<vram, sprmem, mirroring, nmiPending, aborted, stateReads,
                   scrollHist, addrHist, fetched, mapVars, cpuVars, nmiRequests>>

WriteSPRMEM_ADDR(val) ==
    /\ CanRun
    /\ ppu' = [ppu EXCEPT !.m_sprmemAddr = val]
    /\ Record("write", "SPRMEM_ADDR", val, 0)
    /\ events' = << >>
    /\ UNCHANGED <<vram, sprmem, mirroring, nmiPending, aborted, stateReads,
                   scrollHist, addrHist, fetched, mapVars, cpuVars, nmiRequests>>

WriteSPRMEM_DATA(val) ==
    /\ CanRun
    /\ sprmem' = writeSpriteMem(ppu.m_sprmemAddr, val)
    /\ ppu' = [ppu EXCEPT !.m_sprmemAddr = (@ + 1) % BYTE]
    /\ Record("write", "SPRMEM_DATA", val, 0)
    /\ events' = << >>
    /\ UNCHANGED <<vram, mirroring, nmiPending, aborted, stateReads,
                   scrollHist, addrHist, fetched, mapVars, cpuVars, nmiRequests>>

WriteVIDMEM_ADDR(val) ==
    /\ CanRun
    /\ LET a == AddrLatch(ppu.m_vramAddr, val) IN
       /\ ppu' = [ppu EXCEPT !.m_vramAddr = a, !.m_vramReadError = ReadError(a)]
       /\ addrHist' = IF last.op = "write" /\ last.reg = "VIDMEM_ADDR"
                      THEN [msb |-> last.val, a |-> a, reads |-> 0]
                      ELSE NoPair
    /\ Record("write", "VIDMEM_ADDR", val, 0)
    /\ events' = << >>
    /\ UNCHANGED <<vram, sprmem, mirroring, nmiPending, aborted, stateReads,
                   scrollHist, fetched, mapVars, cpuVars, nmiRequests>>

WriteVIDMEM_DATA(val) ==
    /\ CanRun
    /\ vram' = writeVideoMem(ppu.m_vramAddr, val)
    /\ ppu' = [ppu EXCEPT !.m_vramAddr = (@ + ppu.m_addrIncr) % WORD]
    /\ addrHist' = NoPair
    /\ Record("write", "VIDMEM_DATA", val, 0)
    /\ events' = << >>
    /\ UNCHANGED <<sprmem, mirroring, nmiPending, aborted, stateReads,
                   scrollHist, fetched, mapVars, cpuVars, nmiRequests>>

WriteSCROLL(val) ==
    /\ CanRun
    /\ ppu' = ScrollEffect(ppu, val)
    /\ scrollHist' = [scrollHist EXCEPT !.writes = Min(2, @ + 1)]
    /\ Record("write", "SCROLL", val, 0)
    /\ events' = << >>
    /\ UNCHANGED <<vram, sprmem, mirroring, nmiPending, aborted, stateReads,
                   addrHist, fetched, mapVars, cpuVars, nmiRequests>>

\* default: assert(false && "Illegal PPU register for writing")
WriteIllegal(n, val) ==
    /\ CanRun
    /\ n = "STATE"
    /\ aborted' \in BOOLEAN
    /\ Record("write", n, val, 0)
    /\ events' = << >>
    /\ UNCHANGED <<ppu, vram, sprmem, mirroring, nmiPending, stateReads,
                   scrollHist, addrHist, fetched, mapVars, cpuVars, nmiRequests>>

writeRegister(n, val) ==
    \/ n = "CONTROL1" /\ WriteCONTROL1(val)
    \/ n = "CONTROL2" /\ WriteCONTROL2(val)
    \/ n = "SPRMEM_ADDR" /\ WriteSPRMEM_ADDR(val)
    \/ n = "SPRMEM_DATA" /\ WriteSPRMEM_DATA(val)
    \/ n = "VIDMEM_ADDR" /\ WriteVIDMEM_ADDR(val)
    \/ n = "VIDMEM_DATA" /\ WriteVIDMEM_DATA(val)
    \/ n = "SCROLL" /\ WriteSCROLL(val)
    \/ WriteIllegal(n, val)

\* PPU::update(): m_vblank = false; buildImage(); m_vblank = true;
\* if (m_enableNMI) m_bus.generateNMI();
update ==
    /\ CanRun
    /\ LET p1 == [ppu EXCEPT !.m_vblank = FALSE]
           p2 == buildImage(p1)
           p3 == [p2 EXCEPT !.m_vblank = TRUE]
       IN
       \/ /\ ~BuildImageAsserts(p1)        \* the assertion stops the process
          /\ aborted' = TRUE
          /\ ppu' = p1
          /\ events' = <<"vblank:=false", "setBackground">>
          /\ UNCHANGED <<nmiPending, nmiRequests>>
       \/ /\ aborted' = FALSE              \* it holds, or is compiled out
          /\ ppu' = p3
          /\ events' = UpdateEvents(p3)
          /\ nmiPending' = (nmiPending \/ Calls(UpdateEvents(p3), "generateNMI") > 0)
          /\ nmiRequests' = nmiRequests + Calls(UpdateEvents(p3), "generateNMI")
    /\ Record("update", "none", 0, 0)
    /\ stateReads' = 0
    /\ UNCHANGED <<vram, sprmem, mirroring, scrollHist, addrHist, fetched, mapVars>>

\* update() called on its own
Update == update /\ UNCHANGED cpuVars

\* ============================================================ DefaultMapper
\* Mapper::ROM_SIZE, the size of one PRG bank
ROM_SIZE == 16384

\* The offsets of a bank the model watches: its first and last two bytes
ObsOff == {0, 1, ROM_SIZE - 2, ROM_SIZE - 1}

\* The CPU addresses that map to a watched offset
ObsAddr == {32768 + o : o \in ObsOff} \cup {49152 + o : o \in ObsOff}

\* What the loader put into the banks: a different byte in every watched cell
LoadedByte(bank, off) == (16 * (bank + 1) + off) % BYTE

\* A flash payload is n bytes, the i-th being PayloadByte(seed, i)
PayloadByte(seed, i) == (seed + i) % BYTE

FlashAddrs == {32767, 32768, 49150, 49151, 49152, 65534, 65535}
FlashSizes == {0, 1, 2, 3, ROM_SIZE + 1, 2 * ROM_SIZE, 2 * ROM_SIZE + 1}
FlashSeeds == {85, 170}
GarbageVals == {0, 238}       \* what lies behind a payload in memory

\* the fixed window read from the first bank: m_pROM[0]
FixedBankFirst(nROMs) == 0

\* the bank behind $C000-$FFFF: m_pROM[m_nROMs - 1]
FixedBank(nROMs) == nROMs - 1

\* DefaultMapper::readROM: [exc, rv]
readROM(addr) ==
    IF addr >= 49152
    THEN [exc |-> "none", rv |-> m_pROM[FixedBank(m_nROMs)][addr - 49152]]
    ELSE IF addr >= 32768
    THEN [exc |-> "none", rv |-> m_pROM[0][addr - 32768]]
    ELSE [exc |-> "IllegalArgument", rv |-> 0]

\* MemoryBank::Write(a, p, cnt), p pointing poff bytes into a payload of n
\* bytes: the bytes read behind the payload's end are whatever memory holds (g)
BankWrite(bank, a, poff, cnt, seed, n, g) ==
    [o \in ObsOff |->
        IF a <= o /\ o < a + cnt
        THEN (IF poff + (o - a) < n THEN PayloadByte(seed, poff + (o - a))
              ELSE g[o])
        ELSE bank[o]]

\* flash with the first bank written before the rest of a split payload is
\* tried: m_pROM[0].Write(addr, p, space); flash(0xC000, p + space, size - space)
flashWriteFirst(rom, addr, poff, size, seed, n, g) ==
    IF addr >= 49152
    THEN LET a == addr - 49152 IN
         IF size > ROM_SIZE - a
         THEN [rom |-> rom, exc |-> "SizeOverflow", ub |-> FALSE]
         ELSE IF 1 \in DOMAIN rom
         THEN [rom |-> [rom EXCEPT ![1] = BankWrite(rom[1], a, poff, size, seed, n, g)],
               exc |-> "none", ub |-> FALSE]
         ELSE [rom |-> rom, exc |-> "none", ub |-> TRUE]
    ELSE IF addr >= 32768
    THEN LET a     == addr - 32768
             space == ROM_SIZE - a
             lo    == [rom EXCEPT ![0] = BankWrite(rom[0], a, poff, space, seed, n, g)]
         IN  IF size <= space
             THEN [rom |-> lo, exc |-> "none", ub |-> poff + space > n]
             ELSE IF size - space > ROM_SIZE
             THEN [rom |-> lo, exc |-> "SizeOverflow", ub |-> FALSE]
             ELSE IF 1 \in DOMAIN rom
             THEN [rom |-> [lo EXCEPT ![1] = BankWrite(lo[1], 0, poff + space,
                                                      size - space, seed, n, g)],
                   exc |-> "none", ub |-> FALSE]
             ELSE [rom |-> lo, exc |-> "none", ub |-> TRUE]
    ELSE [rom |-> rom, exc |-> "IllegalArgument", ub |-> FALSE]

\* DefaultMapper::flash(addr, p + poff, size) on the banks rom:
\* [rom: the banks after it, exc: the exception thrown, ub: it indexed m_pROM
\*  past its end or read past the payload's end]
RECURSIVE flash(_, _, _, _, _, _, _)
flash(rom, addr, poff, size, seed, n, g) ==
    IF addr >= 49152
    THEN LET a == addr - 49152 IN
         IF size > ROM_SIZE - a
         THEN [rom |-> rom, exc |-> "SizeOverflow", ub |-> FALSE]
         ELSE IF 1 \in DOMAIN rom
         THEN [rom |-> [rom EXCEPT ![1] = BankWrite(rom[1], a, poff, size, seed, n, g)],
               exc |-> "none", ub |-> FALSE]
         ELSE [rom |-> rom, exc |-> "none", ub |-> TRUE]
    ELSE IF addr >= 32768
    THEN LET a     == addr - 32768
             space == ROM_SIZE - a
             hi    == IF size > space
                      THEN flash(rom, 49152, poff + space, size - space, seed, n, g)
                      ELSE [rom |-> rom, exc |-> "none", ub |-> FALSE]
         IN  IF hi.exc # "none" THEN hi
             ELSE [rom |-> [hi.rom EXCEPT ![0] =
                               BankWrite(hi.rom[0], a, poff, space, seed, n, g)],
                   exc |-> "none",
                   ub  |-> hi.ub \/ poff + space > n]
    ELSE [rom |-> rom, exc |-> "IllegalArgument", ub |-> FALSE]

MapperCanRun == ~crashed /\ left > 0

ReadROM(addr) ==
    /\ MapperCanRun
    /\ mres' = [op |-> "readROM", addr |-> addr, n |-> 0, seed |-> 0,
                exc |-> readROM(addr).exc, rv |-> readROM(addr).rv]
    /\ left' = left - 1
    /\ UNCHANGED <<ppuVars, cpuVars, nmiRequests, m_nROMs, m_pROM, crashed>>

\* DefaultMapper::readRAM and writeRAM: "default mapper has no RAM"
ReadRAM(addr) ==
    /\ MapperCanRun
    /\ mres' = [op |-> "readRAM", addr |-> addr, n |-> 0, seed |-> 0,
                exc |-> "IllegalOperation", rv |-> 0]
    /\ left' = left - 1
    /\ UNCHANGED <<ppuVars, cpuVars, nmiRequests, m_nROMs, m_pROM, crashed>>

WriteRAM(addr) ==
    /\ MapperCanRun
    /\ mres' = [op |-> "writeRAM", addr |-> addr, n |-> 0, seed |-> 0,
                exc |-> "IllegalOperation", rv |-> 0]
    /\ left' = left - 1
    /\ UNCHANGED <<ppuVars, cpuVars, nmiRequests, m_nROMs, m_pROM, crashed>>

Flash(addr, seed, n) ==
    /\ MapperCanRun
    /\ \E gv \in GarbageVals :
          LET g == [o \in ObsOff |-> gv]
              r == flash(m_pROM, addr, 0, n, seed, n, g) IN
          \/ /\ r.ub                     \* the wild access faults
             /\ crashed' = TRUE
             /\ UNCHANGED m_pROM
             /\ mres' = [op |-> "flash", addr |-> addr, n |-> n, seed |-> seed,
                         exc |-> "crash", rv |-> 0]
          \/ /\ crashed' = FALSE         \* it does not, or there is none
             /\ m_pROM' = r.rom
             /\ mres' = [op |-> "flash", addr |-> addr, n |-> n, seed |-> seed,
                         exc |-> r.exc, rv |-> 0]
    /\ left' = left - 1
    /\ UNCHANGED <<ppuVars, cpuVars, nmiRequests, m_nROMs>>

NoCall == [op |-> "none", addr |-> 0, n |-> 0, seed |-> 0, exc |-> "none", rv |-> 0]

\* A cartridge of nb PRG banks, as loaded
InitMapper(nb) ==
    /\ m_nROMs = nb
    /\ m_pROM = [b \in 0 .. nb - 1 |-> [o \in ObsOff |-> LoadedByte(b, o)]]
    /\ mres = NoCall
    /\ crashed = FALSE

\* ================================================================= CPU6502
\* enum class Flag: the bit of P each flag lives in
Flag == [C |-> 0, Z |-> 1, I |-> 2, D |-> 3, B |-> 4, V |-> 6, N |-> 7]

\* getFlag<FLG>(): (m_regs.p & (1u << off)) >> off
getFlag(p, F) == (p \div (2 ^ Flag[F])) % 2

\* setFlag without the clearing mask: m_regs.p |= (x & 1u) << off
setFlagNoClear(p, F, x) ==
    IF getFlag(p, F) = 0 THEN p + (x % 2) * (2 ^ Flag[F]) ELSE p

\* setFlag<FLG>(x): m_regs.p = (m_regs.p & ~(1u << off)) | ((x & 1u) << off)
setFlag(p, F, x) ==
    (p - getFlag(p, F) * (2 ^ Flag[F])) + (x % 2) * (2 ^ Flag[F])

hi_byte(w) == (w \div BYTE) % BYTE
lo_byte(w) == w % BYTE

\* eval_Z and eval_N
eval_Z(p, r) == setFlag(p, "Z", IF r = 0 THEN 1 ELSE 0)
eval_N(p, r) == setFlag(p, "N", (r \div 128) % 2)

\* writeMem into CPU RAM
writeRam(mem, addr, v) ==
    [x \in DOMAIN mem \cup {addr} |-> IF x = addr THEN v ELSE mem[x]]

\* readMem from CPU RAM
readRam(mem, addr) == IF addr \in DOMAIN mem THEN mem[addr] ELSE 0

\* push with the decrement first: writeMem(0x100u | (--m_regs.s & 0xFFu), v)
pushPreDecrement(c, v) ==
    [regs |-> [c.regs EXCEPT !.s = (@ + BYTE - 1) % BYTE],
     ram  |-> writeRam(c.ram, 256 + ((c.regs.s + BYTE - 1) % BYTE), v)]

\* push(v): writeMem(0x100u | (m_regs.s-- & 0xFFu), v), as [regs, ram]
push(c, v) ==
    [regs |-> [c.regs EXCEPT !.s = (@ + BYTE - 1) % BYTE],
     ram  |-> writeRam(c.ram, 256 + (c.regs.s % BYTE), v)]

\* pop(): readMem(0x100u | (++m_regs.s & 0xFFu)), as [regs, rv]
pop(c) ==
    LET s1 == (c.regs.s + 1) % BYTE IN
    [regs |-> [c.regs EXCEPT !.s = s1], rv |-> readRam(c.ram, 256 + s1)]

\* The NMI vector at $FFFA/B of the program in ROM
NmiVectors == {36864}

\* NMI(): push PC (high, then low) and P with B cleared, set I, load PC from
\* the vector; as [regs, ram]
NMI(regs, mem, vector) ==
    LET c1 == push([regs |-> regs, ram |-> mem], hi_byte(regs.pc))
        c2 == push(c1, lo_byte(regs.pc))
        c3 == push(c2, setFlag(regs.p, "B", 0))
    IN  [regs |-> [c3.regs EXCEPT !.p = setFlag(@, "I", 1), !.pc = vector],
         ram  |-> c3.ram]

\* The clocks an interrupt sequence takes
IntCycles == 7

\* branchIf<F, IS_SET>() once the opcode is fetched: [regs, penalty]
branchIf(regs, F, isSet, rdis) ==
    LET n    == IF isSet THEN 0 ELSE 1
        pc1  == (regs.pc + 1) % WORD                 \* fetchOperand<AM::IMM>()
        taken == getFlag(regs.p, F) # n              \* getFlag<F>() ^ n
        oldPC_h == hi_byte((pc1 + WORD - 1) % WORD)
        pc2  == IF rdis >= 128 THEN (pc1 + WORD - (256 - rdis)) % WORD
                ELSE (pc1 + rdis) % WORD
    IN  IF taken
        THEN [regs |-> [regs EXCEPT !.pc = pc2],
              penalty |-> IF oldPC_h # hi_byte(pc2) THEN 2 ELSE 1]
        ELSE [regs |-> [regs EXCEPT !.pc = pc1], penalty |-> 0]

\* static constexpr int OPCODE_COUNT = 0xFF: the number of entries of
\* s_opHandlers, std::array<OpData, OPCODE_COUNT>
OPCODE_COUNT == 255

\* The instructions the program in memory is made of: opcode, opcode byte,
\* base clocks and operand byte. "???" is a byte with no handler in
\* s_opHandlers, "$FF" the last opcode byte.
Instrs ==
    {[op |-> "NOP", code |-> 234, base |-> 2, arg |-> 0],
     [op |-> "LDA_IMM", code |-> 169, base |-> 2, arg |-> 0],
     [op |-> "LDA_IMM", code |-> 169, base |-> 2, arg |-> 128],
     [op |-> "STA_2000", code |-> 141, base |-> 4, arg |-> 0],
     [op |-> "BNE", code |-> 208, base |-> 2, arg |-> 5],
     [op |-> "BEQ", code |-> 240, base |-> 2, arg |-> 251],
     [op |-> "???", code |-> 2, base |-> 0, arg |-> 0],
     [op |-> "$FF", code |-> 255, base |-> 0, arg |-> 0]}

\* s_opHandlers[opcode] lies in the table
InTable(opcode) == opcode < OPCODE_COUNT

\* The handler of an instruction, the opcode byte at PC fetched: [regs, penalty]
Exec(regs, i) ==
    LET r1 == [regs EXCEPT !.pc = (@ + 1) % WORD] IN
    CASE i.op = "NOP" -> [regs |-> r1, penalty |-> 0]
      [] i.op = "LDA_IMM" ->
            [regs |-> [r1 EXCEPT !.pc = (@ + 1) % WORD, !.a = i.arg,
                                 !.p = eval_N(eval_Z(@, i.arg), i.arg)],
             penalty |-> 0]
      [] i.op = "STA_2000" ->
            [regs |-> [r1 EXCEPT !.pc = (@ + 2) % WORD], penalty |-> 0]
      [] i.op = "BNE" -> branchIf(r1, "Z", FALSE, i.arg)
      [] i.op = "BEQ" -> branchIf(r1, "Z", TRUE, i.arg)

\* Is a pending NMI taken at the top of run(), before the first instruction?
NMIAfterFirst(pending) == FALSE
NMIAtTop(pending) == pending

ppuRest == <<vram, sprmem, mirroring, aborted, stateReads, scrollHist,
             addrHist, fetched>>

\* run(clk), up to its first instruction: a pending NMI is serviced
RunBegin(clk) ==
    /\ CanRun /\ ~crashed /\ turn = "cpu" /\ call.phase # "running"
    /\ m_state = "RUN"
    /\ left' = left - 1
    /\ \E vector \in NmiVectors :
          LET svc == NMIAtTop(nmiPending)
              n   == NMI(m_regs, ram, vector)
          IN  /\ m_regs' = IF svc THEN n.regs ELSE m_regs
              /\ ram' = IF svc THEN n.ram ELSE ram
              /\ m_nmiCount' = IF svc THEN m_nmiCount + 1 ELSE m_nmiCount
              /\ nmiPending' = IF svc THEN FALSE ELSE nmiPending
              /\ call' = [phase |-> "running", clk |-> clk,
                          remaining |-> IF svc THEN clk - IntCycles ELSE clk,
                          spent |-> IF svc THEN IntCycles ELSE 0,
                          regs0 |-> m_regs, nmi0 |-> nmiPending, instrs |-> 0,
                          svcAt |-> IF svc THEN 0 ELSE -1,
                          opcode |-> -1, dispatch |-> "none"]
    /\ UNCHANGED <<ppu, last, events, ppuRest, mapVars, m_state, m_penalty,
                   turn, cop, nmiRequests>>

\* One turn of run()'s loop: step(remaining) on the instruction at PC, then
\* the pending-interrupt check between instructions
Step(i) ==
    /\ CanRun /\ ~crashed /\ call.phase = "running"
    /\ left' = left - 1
    /\ \/ /\ ~InTable(i.code)     \* the lookup reads behind the table: the
          /\ \/ /\ crashed' = TRUE  \* process dies on what it finds there,
                /\ call' = [call EXCEPT !.opcode = i.code, !.dispatch = "wild"]
                /\ UNCHANGED <<m_state, turn>>
             \/ /\ crashed' = FALSE \* or finds no handler there
                /\ m_state' = "ERROR"
                /\ call' = [call EXCEPT !.phase = "returned",
                                        !.opcode = i.code, !.dispatch = "wild"]
                /\ turn' = "ppu"
          /\ UNCHANGED <<m_regs, m_penalty, m_nmiCount, ram, nmiPending, ppu,
                         last, events>>
       \/ /\ i.op = "???"                     \* no handler: STATE_ERROR, run returns
          /\ m_state' = "ERROR"
          /\ call' = [call EXCEPT !.phase = "returned",
                                  !.opcode = i.code, !.dispatch = "error"]
          /\ turn' = "ppu"
          /\ UNCHANGED <<m_regs, m_penalty, m_nmiCount, ram, nmiPending, ppu,
                         last, events, crashed>>
       \/ /\ i.op # "???" /\ InTable(i.code)
          /\ i.base > call.remaining          \* does not fit: run returns
          /\ call' = [call EXCEPT !.phase = "returned",
                                  !.opcode = i.code, !.dispatch = "nofit"]
          /\ turn' = "ppu"
          /\ UNCHANGED <<m_regs, m_state, m_penalty, m_nmiCount, ram,
                         nmiPending, ppu, last, events, crashed>>
       \/ /\ i.op # "???" /\ InTable(i.code) /\ i.base <= call.remaining
          /\ \E vector \in NmiVectors :
                LET x    == Exec(m_regs, i)
                    cost == i.base + x.penalty
                    svc  == nmiPending
                    n    == NMI(x.regs, ram, vector)
                IN  /\ m_penalty' = x.penalty
                    /\ m_regs' = IF svc THEN n.regs ELSE x.regs
                    /\ ram' = IF svc THEN n.ram ELSE ram
                    /\ m_nmiCount' = IF svc THEN m_nmiCount + 1 ELSE m_nmiCount
                    /\ nmiPending' = FALSE
                    /\ call' = [call EXCEPT
                          !.remaining = @ - cost - (IF svc THEN IntCycles ELSE 0),
                          !.spent = @ + cost + (IF svc THEN IntCycles ELSE 0),
                          !.instrs = Min(2, @ + 1),
                          !.svcAt = IF svc THEN Min(2, call.instrs + 1) ELSE @,
                          !.opcode = i.code, !.dispatch = "handler"]
          /\ IF i.op = "STA_2000"             \* the bus hands $2000 to the PPU
             THEN /\ ppu' = Control1Effect(ppu, m_regs.a)
                  /\ last' = [op |-> "write", reg |-> "CONTROL1",
                              val |-> m_regs.a, rv |-> 0]
                  /\ events' = << >>
             ELSE UNCHANGED <<ppu, last, events>>
          /\ UNCHANGED <<m_state, turn, crashed>>
    /\ UNCHANGED <<ppuRest, m_nROMs, m_pROM, mres, nmiRequests, cop>>

\* The host's update() call after its run() call
HostUpdate ==
    /\ turn = "ppu" /\ ~crashed
    /\ update
    /\ turn' = "cpu"
    /\ UNCHANGED <<m_regs, m_state, m_penalty, m_nmiCount, ram, call, cop>>

\* No helper called yet
NoCop == [op |-> "none", flag |-> "C", arg |-> 0, rv |-> 0, s0 |-> 0, p0 |-> 0,
          pc0 |-> 0, prevOp |-> "none", prevArg |-> 0, prevS |-> 0]

\* The CPU after reset(): PC from the reset vector, S = $FD, P = $34, RUN
InitCPU ==
    /\ m_regs = [a |-> 0, x |-> 0, y |-> 0, s |-> 253, p |-> 52, pc |-> 32768]
    /\ m_state = "RUN"
    /\ m_penalty = 0
    /\ m_nmiCount = 0
    /\ ram = << >>
    /\ call = [phase |-> "idle", clk |-> 0, remaining |-> 0, spent |-> 0,
               regs0 |-> [a |-> 0, x |-> 0, y |-> 0, s |-> 253, p |-> 52,
                          pc |-> 32768],
               nmi0 |-> FALSE, instrs |-> 0, svcAt |-> -1,
               opcode |-> -1, dispatch |-> "none"]
    /\ turn = "cpu"
    /\ cop = NoCop

\* ------------------------------------------------------------------- Init
\* The state after construction and reset. m_enableWrite and m_spritesOnLine
\* are assigned nowhere in PPU.cpp: they keep what construction gave them.
InitPPU(ew, sol, mir) ==
    /\ ppu = [m_vblank |-> FALSE, m_enableNMI |-> FALSE,
              m_enableWrite |-> ew, m_spritesOnLine |-> sol,
              m_sprite0 |-> FALSE, m_vramAddr |-> 0, m_addrIncr |-> 1,
              m_vramReadError |-> FALSE, m_currScrollReg |-> 0,
              m_scrollV |-> 0, m_scrollH |-> 0, m_activePage |-> 8192,
              m_baSprites |-> 0, m_baBkgnd |-> 0, m_bigSprites |-> FALSE,
              m_fullBacgroundVisible |-> FALSE, m_allSpritesVisible |-> FALSE,
              m_backgroundVisible |-> FALSE, m_spritesVisible |-> FALSE,
              m_sprmemAddr |-> 0]
    /\ vram = << >>
    /\ sprmem = << >>
    /\ mirroring = mir
    /\ nmiPending = FALSE
    /\ aborted = FALSE
    /\ last = NoOp
    /\ events = << >>
    /\ stateReads = 0
    /\ scrollHist = [read |-> FALSE, writes |-> 0]
    /\ addrHist = NoPair
    /\ fetched = [now |-> 0, before |-> 0]
    /\ nmiRequests = 0

\* The register file and update(), driven by an arbitrary CPU program and host
InitRegs ==
    /\ \E ew \in BOOLEAN, sol \in {0, 9} : InitPPU(ew, sol, "H")
    /\ InitMapper(1)
    /\ InitCPU
    /\ left = MaxOps

NextPPU ==
    \/ \E n \in {"STATE", "SPRMEM_DATA", "VIDMEM_DATA"} \cup IllegalReads :
          readRegister(n)
    \/ \E val \in Control1Vals : writeRegister("CONTROL1", val)
    \/ \E val \in Control2Vals : writeRegister("CONTROL2", val)
    \/ \E val \in OamVals : writeRegister("SPRMEM_ADDR", val)
    \/ \E val \in OamVals : writeRegister("SPRMEM_DATA", val)
    \/ \E val \in AddrVals : writeRegister("VIDMEM_ADDR", val)
    \/ \E val \in DataVals : writeRegister("VIDMEM_DATA", val)
    \/ \E val \in ScrollVals : writeRegister("SCROLL", val)
    \/ \E val \in OamVals : writeRegister("STATE", val)
    \/ Update

SpecPPU == InitRegs /\ [][NextPPU]_vars

\* The video memory port alone: VIDMEM_ADDR, VIDMEM_DATA, the increment bit of
\* CONTROL1 and STATE reads, in longer sequences
InitVram ==
    /\ \E mir \in {"H", "V"} : InitPPU(TRUE, 0, mir)
    /\ InitMapper(1)
    /\ InitCPU
    /\ left = MaxVramOps

NextVram ==
    \/ ReadVIDMEM_DATA
    \/ ReadSTATE
    \/ \E val \in {0, 4} : WriteCONTROL1(val)
    \/ \E val \in AddrVals : WriteVIDMEM_ADDR(val)
    \/ \E val \in DataVals : WriteVIDMEM_DATA(val)

SpecVram == InitVram /\ [][NextVram]_vars

\* The default mapper with one or two PRG banks
InitCart ==
    /\ InitPPU(TRUE, 0, "H")
    /\ \E nb \in {1, 2} : InitMapper(nb)
    /\ InitCPU
    /\ left = MaxMapperOps

NextMapper ==
    \/ \E addr \in ObsAddr \cup {0, 32767} : ReadROM(addr)
    \/ \E addr \in {24576} : ReadRAM(addr)
    \/ \E addr \in {24576} : WriteRAM(addr)
    \/ \E addr \in FlashAddrs, seed \in FlashSeeds, n \in FlashSizes :
          Flash(addr, seed, n)

SpecMapper == InitCart /\ [][NextMapper]_vars

\* The host loop: run(clk), then update(), over an arbitrary program
RunBudgets == {0, 2, 5, 9}

InitHost ==
    /\ InitPPU(TRUE, 0, "H")
    /\ InitMapper(1)
    /\ InitCPU
    /\ left = MaxCpuOps

Next ==
    \/ \E clk \in RunBudgets : RunBegin(clk)
    \/ \E i \in Instrs : Step(i)
    \/ HostUpdate

Init == InitHost

Spec == Init /\ [][Next]_vars

\* ----------------------------------------------------- the frame builder
\* The registers buildImage() reads, set by the program, then update()
FrameControl1 == {0, 3}               \* active page $2000, $2C00
FrameControl2 == {8, 16, 24}          \* background, sprites, both
FrameScroll   == {0, 3, 16, 248}
FrameOamAddr  == {2}                  \* sprite 0's attribute byte
FrameOamData  == {32}                 \* attribute bit 5: behind the background

InitFrame ==
    /\ InitPPU(TRUE, 0, "H")
    /\ InitMapper(1)
    /\ InitCPU
    /\ left = MaxFrameOps

NextFrame ==
    \/ \E val \in FrameControl1 : WriteCONTROL1(val)
    \/ \E val \in FrameControl2 : WriteCONTROL2(val)
    \/ \E val \in FrameScroll : WriteSCROLL(val)
    \/ \E val \in FrameOamAddr : WriteSPRMEM_ADDR(val)
    \/ \E val \in FrameOamData : WriteSPRMEM_DATA(val)
    \/ Update

SpecFrame == InitFrame /\ [][NextFrame]_vars

\* ------------------------------------------------- the CPU's helpers alone
\* setFlag, push, pop and branchIf as the opcode handlers call them, from any
\* status byte, stack pointer and program counter
Flags == {"C", "Z", "I", "D", "B", "V", "N"}
StackVals == {85, 170}
StackPtrs == {0, 1, 2, 127, 253, 254, 255}
BranchFlags == {"Z"}
BranchDisps == {5, 127, 128, 251}      \* +5, +127, -128, -5
StartPCs == {32768, 33022, 33023, 33024}  \* $8000, $80FE, $80FF, $8100

CopOf(op, F, arg, rv) ==
    [op |-> op, flag |-> F, arg |-> arg, rv |-> rv, s0 |-> m_regs.s,
     p0 |-> m_regs.p, pc0 |-> m_regs.pc, prevOp |-> cop.op,
     prevArg |-> cop.arg, prevS |-> cop.s0]

\* setFlag<F>(x), x < 2
SetFlag(F, x) ==
    /\ CanRun
    /\ m_regs' = [m_regs EXCEPT !.p = setFlag(@, F, x)]
    /\ cop' = CopOf("setFlag", F, x, 0)
    /\ left' = left - 1
    /\ UNCHANGED <<ppu, vram, sprmem, mirroring, nmiPending, aborted, last,
                   events, stateReads, scrollHist, addrHist, fetched, mapVars,
                   nmiRequests, m_state, m_penalty, m_nmiCount, ram, call, turn>>

\* push(v): assert(m_regs.s > 0u && "Stack overflow") stops a build with
\* assertions; one without writes at $0100 and wraps S to $FF
Push(v) ==
    /\ CanRun
    /\ left' = left - 1
    /\ \/ /\ m_regs.s = 0
          /\ aborted' = TRUE
          /\ cop' = CopOf("abort", "C", v, 0)
          /\ UNCHANGED <<m_regs, ram>>
       \/ /\ aborted' = FALSE
          /\ m_regs' = push([regs |-> m_regs, ram |-> ram], v).regs
          /\ ram' = push([regs |-> m_regs, ram |-> ram], v).ram
          /\ cop' = CopOf("push", "C", v, 0)
    /\ UNCHANGED <<ppu, vram, sprmem, mirroring, nmiPending, last,
                   events, stateReads, scrollHist, addrHist, fetched, mapVars,
                   nmiRequests, m_state, m_penalty, m_nmiCount, call, turn>>

\* pop(): assert(m_regs.s < 0xFFu && "Stack underflow")
Pop ==
    /\ CanRun
    /\ left' = left - 1
    /\ \/ /\ m_regs.s = 255
          /\ aborted' = TRUE
          /\ cop' = CopOf("abort", "C", 0, 0)
          /\ UNCHANGED m_regs
       \/ /\ aborted' = FALSE
          /\ m_regs' = pop([regs |-> m_regs, ram |-> ram]).regs
          /\ cop' = CopOf("pop", "C", 0, pop([regs |-> m_regs, ram |-> ram]).rv)
    /\ UNCHANGED <<ppu, vram, sprmem, mirroring, nmiPending, last,
                   events, stateReads, scrollHist, addrHist, fetched, mapVars,
                   nmiRequests, m_state, m_penalty, m_nmiCount, ram, call, turn>>

\* A branch instruction's handler, PC at its operand byte rdis:
\* branchIf<F, IS_SET>()
BranchIf(F, isSet, rdis) ==
    /\ CanRun
    /\ left' = left - 1
    /\ m_regs' = branchIf(m_regs, F, isSet, rdis).regs
    /\ m_penalty' = branchIf(m_regs, F, isSet, rdis).penalty
    /\ cop' = CopOf("branchIf", F, rdis, IF isSet THEN 1 ELSE 0)
    /\ UNCHANGED <<ppu, vram, sprmem, mirroring, nmiPending, aborted, last,
                   events, stateReads, scrollHist, addrHist, fetched, mapVars,
                   nmiRequests, m_state, m_nmiCount, ram, call, turn>>

\* Any status byte with the stack and PC of reset, a stack pointer at or
\* between its ends, or a program counter around a page boundary
InitCpuOps ==
    /\ InitPPU(TRUE, 0, "H")
    /\ InitMapper(1)
    /\ \E p \in 0 .. 255, s \in StackPtrs, pc \in StartPCs :
          /\ \/ s = 253 /\ pc = 32768
             \/ p = 52 /\ pc = 32768
             \/ p \in {52, 54} /\ s = 253
          /\ m_regs = [a |-> 0, x |-> 0, y |-> 0, s |-> s, p |-> p, pc |-> pc]
    /\ m_state = "RUN"
    /\ m_penalty = 0
    /\ m_nmiCount = 0
    /\ ram = << >>
    /\ call = [phase |-> "idle", clk |-> 0, remaining |-> 0, spent |-> 0,
               regs0 |-> [a |-> 0, x |-> 0, y |-> 0, s |-> 253, p |-> 52,
                          pc |-> 32768],
               nmi0 |-> FALSE, instrs |-> 0, svcAt |-> -1,
               opcode |-> -1, dispatch |-> "none"]
    /\ turn = "cpu"
    /\ cop = NoCop
    /\ left = MaxHelperOps

NextCpuOps ==
    \/ \E F \in Flags, x \in {0, 1} : SetFlag(F, x)
    \/ \E v \in StackVals : Push(v)
    \/ Pop
    \/ \E F \in BranchFlags, isSet \in BOOLEAN, rdis \in BranchDisps :
          BranchIf(F, isSet, rdis)

SpecCpuOps == InitCpuOps /\ [][NextCpuOps]_vars

\* =================================================================== claims
IsStateRead(l) == l.op = "read" /\ l.reg = "STATE"
IsWrite(l, reg) == l.op = "write" /\ l.reg = reg
IsDataRead(l) == l.op = "read" /\ l.reg = "VIDMEM_DATA"

\* Where a call first occurs in a handler's sequence of calls (0: nowhere)
Pos(evs, what) ==
    IF Calls(evs, what) = 0 THEN 0
    ELSE CHOOSE i \in DOMAIN evs :
            evs[i] = what /\ \A j \in DOMAIN evs : evs[j] = what => i <= j

\* C4: after every completed update() the VBlank flag is set, and the bus was
\* asked for an NMI exactly once if m_enableNMI is set and not at all if it is
\* clear, the request coming after the frame was drawn and VBlank was set.
C4_UpdateRequestsNMI ==
    (last.op = "update" /\ ~aborted) =>
        /\ ppu.m_vblank
        /\ Calls(events, "generateNMI") = (IF ppu.m_enableNMI THEN 1 ELSE 0)
        /\ ppu.m_enableNMI =>
              /\ nmiPending
              /\ Pos(events, "draw") > 0
              /\ Pos(events, "draw") < Pos(events, "vblank:=true")
              /\ Pos(events, "vblank:=true") < Pos(events, "generateNMI")

C4_Witness ==
    /\ last.op = "update" /\ ~aborted
    /\ ppu.m_enableNMI /\ ppu.m_vblank /\ nmiPending
    /\ Calls(events, "generateNMI") = 1

\* C5: after two consecutive VIDMEM_ADDR writes (MSB, then LSB) the VRAM
\* address is (MSB << 8) | LSB, whatever preceded the pair.
C5_AddrPair ==
    (IsWrite(last, "VIDMEM_ADDR") /\ addrHist.msb >= 0) =>
        ppu.m_vramAddr = addrHist.msb * 256 + last.val

\* a pair written after the latch held something else and the port was used
C5_Witness ==
    /\ IsWrite(last, "VIDMEM_ADDR") /\ addrHist.msb = 63 /\ last.val = 32
    /\ ppu.m_vramAddr = 16160
    /\ vram # << >>
    /\ left <= MaxVramOps - 5

\* C6: a STATE read reports VBlank in bit 7 and clears it, so that of two
\* STATE reads with no update() between them the second has bit 7 clear; the
\* read reports and leaves alone the flags behind bits 4, 5 and 6.
C6_StateRead ==
    [][ (IsStateRead(last') /\ left' < left) =>
            /\ test(7, last'.rv) = ppu.m_vblank
            /\ ~ppu'.m_vblank
            /\ (stateReads >= 1 => ~test(7, last'.rv))
            /\ test(4, last'.rv) = ~ppu.m_enableWrite
            /\ test(5, last'.rv) = (ppu.m_spritesOnLine > 8)
            /\ test(6, last'.rv) = ppu.m_sprite0
            /\ ppu'.m_enableWrite = ppu.m_enableWrite
            /\ ppu'.m_spritesOnLine = ppu.m_spritesOnLine
            /\ ppu'.m_sprite0 = ppu.m_sprite0 ]_vars

\* the second of two STATE reads after an update(), bits 4 and 5 reported
C6_Witness ==
    /\ IsStateRead(last) /\ stateReads = 2
    /\ ~test(7, last.rv) /\ test(4, last.rv) /\ test(5, last.rv)
    /\ ~ppu.m_enableWrite /\ ppu.m_spritesOnLine = 9

\* C7: SCROLL writes alternate, vertical first, and a STATE read resets the
\* toggle: the first SCROLL write after a STATE read sets the vertical scroll.
C7_ScrollToggleReset ==
    (IsWrite(last, "SCROLL") /\ scrollHist.read /\ scrollHist.writes = 1) =>
        ppu.m_scrollV = last.val

\* palette space, $3F00-$3FFF
IsPalette(a) == a >= 16128 /\ a <= 16383

\* C8: the first VIDMEM_DATA read after the address was set to a non-palette
\* address a returns the byte buffered by the previous read, the one after it
\* returns VRAM[a]; at a palette address the first read returns VRAM[a].
C8_ReadDelay ==
    (IsDataRead(last) /\ addrHist.a >= 0) =>
        /\ (addrHist.reads = 1 /\ ~IsPalette(addrHist.a)) =>
              last.rv = fetched.before
        /\ (addrHist.reads = 2 /\ ~IsPalette(addrHist.a)) =>
              last.rv = readVideoMem(addrHist.a)
        /\ (addrHist.reads = 1 /\ IsPalette(addrHist.a)) =>
              last.rv = readVideoMem(addrHist.a)

\* C9: readROM maps $C000-$FFFF to the last PRG bank and $8000-$BFFF to the
\* first, so that with one bank both windows read the same bytes; below $8000
\* it fails with IllegalArgument.
C9_ReadROMMap ==
    /\ mres.op = "readROM" =>
          /\ mres.addr >= 49152 =>
                /\ mres.exc = "none"
                /\ mres.rv = m_pROM[m_nROMs - 1][mres.addr - 49152]
          /\ (mres.addr >= 32768 /\ mres.addr < 49152) =>
                /\ mres.exc = "none"
                /\ mres.rv = m_pROM[0][mres.addr - 32768]
          /\ mres.addr < 32768 => mres.exc = "IllegalArgument"
    /\ m_nROMs = 1 =>
          \A o \in ObsOff : readROM(32768 + o) = readROM(32768 + o + ROM_SIZE)

\* a read of the fixed window of a two-bank cartridge, after a flash changed it
C9_Witness ==
    /\ mres.op = "readROM" /\ mres.addr = 49152 /\ m_nROMs = 2
    /\ mres.rv = 85 /\ m_pROM[0][0] # m_pROM[1][0]

\* C10: after a flash(addr, bytes, n) that succeeded, readROM(addr + i) is
\* bytes[i] for every i < n, with one PRG bank or two.
C10_FlashReadRoundTrip ==
    (mres.op = "flash" /\ mres.exc = "none") =>
        \A a \in ObsAddr :
            (mres.addr <= a /\ a < mres.addr + mres.n) =>
                readROM(a).rv = PayloadByte(mres.seed, a - mres.addr)

\* C1: run(clk) returns a number of spent clocks <= clk.
C1_RunWithinBudget ==
    call.phase = "returned" => call.spent <= call.clk

\* C2: run(0) returns 0 and leaves every register as it was, also with an NMI
\* pending from the preceding update().
C2_RunZero ==
    (call.phase = "returned" /\ call.clk = 0) =>
        (call.spent = 0 /\ m_regs = call.regs0)

\* C3: an NMI requested by update() is serviced at the top of the next run()
\* call, before any program instruction of that call, and every request makes
\* nmi_count one larger.
C3_NMIServiced ==
    /\ nmiRequests = m_nmiCount + (IF nmiPending THEN 1 ELSE 0)
    /\ call.phase = "running" => ~nmiPending
    /\ (call.phase # "idle" /\ call.nmi0) => call.svcAt = 0
    /\ (call.phase # "idle" /\ ~call.nmi0) => call.svcAt = -1

\* the second NMI is serviced at the top of a run() that then executes
C3_Witness ==
    /\ m_nmiCount = 2 /\ nmiRequests = 2
    /\ call.nmi0 /\ call.svcAt = 0 /\ call.instrs >= 1

\* C11: after setFlag<F>(x), getFlag<F>() returns x and every other bit of P,
\* unused bit 5 included, is what it was.
C11_SetGetFlag ==
    cop.op = "setFlag" =>
        /\ getFlag(m_regs.p, cop.flag) = cop.arg
        /\ \A b \in (0 .. 7) \ {Flag[cop.flag]} :
              test(b, m_regs.p) = test(b, cop.p0)

\* V cleared in a status byte that had V and the unused bit 5 set
C11_Witness ==
    /\ cop.op = "setFlag" /\ cop.flag = "V" /\ cop.arg = 0
    /\ test(6, cop.p0) /\ test(5, cop.p0)
    /\ ~test(6, m_regs.p) /\ test(5, m_regs.p)

\* C12: push(x) at a stack pointer S > 0 writes x at $0100|S and leaves S - 1;
\* a pop() right after it returns x and leaves S at its value before the push.
C12_PushPop ==
    /\ (cop.op = "push" /\ cop.s0 > 0) =>
          /\ readRam(ram, 256 + cop.s0) = cop.arg
          /\ m_regs.s = cop.s0 - 1
    /\ (cop.op = "pop" /\ cop.prevOp = "push" /\ cop.prevS > 0) =>
          /\ cop.rv = cop.prevArg
          /\ m_regs.s = cop.prevS

\* $AA pushed at S = 1, the last place push is permitted at, and popped
C12_Witness ==
    /\ cop.op = "pop" /\ cop.prevOp = "push" /\ cop.prevS = 1
    /\ cop.rv = 170 /\ m_regs.s = 1

\* C13: a taken branch moves PC to the instruction-following PC plus the signed
\* displacement with a penalty of 1, or of 2 exactly when the target's high
\* byte differs from that of the instruction-following PC; a branch not taken
\* leaves PC at the instruction-following PC with no penalty.
C13_BranchPenalty ==
    cop.op = "branchIf" =>
        LET following == (cop.pc0 + 1) % WORD
            taken     == getFlag(cop.p0, cop.flag) = cop.rv
            target    == IF cop.arg >= 128
                         THEN (following + WORD - (256 - cop.arg)) % WORD
                         ELSE (following + cop.arg) % WORD
        IN  IF taken
            THEN /\ m_regs.pc = target
                 /\ m_penalty = (IF hi_byte(target) # hi_byte(following)
                                 THEN 2 ELSE 1)
            ELSE /\ m_regs.pc = following
                 /\ m_penalty = 0

\* C14: after an update() with sprites enabled (8x8 sprites) the sprite-0 hit
\* flag is set and STATE reports it in bit 6; after an update() with sprites
\* disabled it is clear.
C14_Sprite0Hit ==
    (last.op = "update" /\ ~aborted) =>
        /\ (ppu.m_spritesVisible /\ ~ppu.m_bigSprites) =>
              (ppu.m_sprite0 /\ test(6, StateByte(ppu)))
        /\ ~ppu.m_spritesVisible => ~ppu.m_sprite0

\* C15: every VIDMEM_DATA access, write or read, the first read after a
\* VIDMEM_ADDR write included, advances the VRAM address by the increment
\* CONTROL1 selected, modulo 2^16.
C15_AccessAdvances ==
    [][ ((IsDataRead(last') \/ IsWrite(last', "VIDMEM_DATA")) /\ left' < left) =>
            ppu'.m_vramAddr = (ppu.m_vramAddr + ppu.m_addrIncr) % WORD ]_vars

\* C16: after a VIDMEM_ADDR pair the read-delay flag is clear if the address is
\* in palette space, $3F00-$3FFF, and set if it is below $3F00.
C16_DelayFlag ==
    (IsWrite(last, "VIDMEM_ADDR") /\ addrHist.msb >= 0) =>
        /\ IsPalette(addrHist.a) => ~ppu.m_vramReadError
        /\ addrHist.a < 16128 => ppu.m_vramReadError

\* C17: buildImage() calls setBackground first, then blits the background
\* tiles, then, with sprites enabled, exactly 64 sprites taken from the OAM
\* entries 63, 62, ..., 0, each behind the background if its attribute bit 5
\* is set and in front otherwise, and calls draw() once, after every blit.
C17_BackendOrder ==
    (last.op = "update" /\ ~aborted) =>
        \A mode \in Modes :
            LET log == BackendCalls(ppu, mode)
                n   == Len(log)
                nb  == Cardinality({k \in 1 .. n : log[k].layer = "BACKGROUND"})
                ns  == IF ppu.m_spritesVisible THEN 64 ELSE 0
            IN  /\ n = nb + ns + 2
                /\ \A k \in 1 .. n :
                      /\ (log[k].call = "setBackground") = (k = 1)
                      /\ (log[k].call = "draw") = (k = n)
                      /\ (log[k].layer = "BACKGROUND") = (1 < k /\ k <= nb + 1)
                      /\ (log[k].layer \in {"FRONT", "BEHIND"}) =
                            (nb + 1 < k /\ k < n)
                /\ \A m \in 0 .. ns - 1 :
                      LET b == log[nb + 2 + m] IN
                      /\ b.src = 63 - m
                      /\ b.y = readSpriteMem(b.src * 4)
                      /\ b.x = readSpriteMem(b.src * 4 + 3)
                      /\ (b.layer = "BEHIND") =
                            test(5, readSpriteMem(b.src * 4 + 2))

\* background and sprites drawn, sprite 0 behind the background and last
C17_Witness ==
    /\ last.op = "update" /\ ~aborted
    /\ ppu.m_backgroundVisible /\ ppu.m_spritesVisible
    /\ test(5, readSpriteMem(2))
    /\ LET log == BackendCalls(ppu, "NTSC") IN
       /\ Len(log) = 28 * 32 + 64 + 2
       /\ log[Len(log) - 1].src = 0 /\ log[Len(log) - 1].layer = "BEHIND"
       /\ log[Len(log) - 2].layer = "FRONT"

\* the nametable next to pg horizontally and vertically
HNeighbour(pg) == IF ((pg - 8192) \div 1024) % 2 = 0 THEN pg + 1024 ELSE pg - 1024
VNeighbour(pg) == IF (pg - 8192) \div 2048 = 0 THEN pg + 2048 ELSE pg - 2048

\* C18: a background tile whose scrolled position stays inside 256x240 is
\* fetched from the active page CONTROL1 selected, one past the right edge from
\* its horizontal neighbour and one past the bottom edge from its vertical
\* neighbour, for every scroll value.
C18_TilePage ==
    (last.op = "update" /\ ~aborted /\ ppu.m_backgroundVisible) =>
        \A r \in 0 .. 29, c \in 0 .. 31 :
            LET sx == c * 8 + ppu.m_scrollH
                sy == r * 8 + ppu.m_scrollV
                pg == TilePage(ppu, r, c)
            IN  /\ (sx < 256 /\ sy < 240) => pg = ppu.m_activePage
                /\ (sx >= 256 /\ sy < 240) => pg = HNeighbour(ppu.m_activePage)
                /\ (sx < 256 /\ sy >= 240) => pg = VNeighbour(ppu.m_activePage)

\* C19: flash fails with SizeOverflow exactly when addr >= $8000 and the
\* payload ends past $FFFF, and with IllegalArgument when addr < $8000; a flash
\* that fails has changed no byte of any PRG bank, also when the $C000 half of
\* a split payload is the one that does not fit.
C19_FlashErrors ==
    [][ (mres'.op = "flash" /\ left' < left) =>
            /\ (mres'.exc = "SizeOverflow") =
                  (mres'.addr >= 32768 /\ mres'.addr + mres'.n > 65536)
            /\ mres'.addr < 32768 => mres'.exc = "IllegalArgument"
            /\ mres'.exc \in {"SizeOverflow", "IllegalArgument"} =>
                  m_pROM' = m_pROM ]_vars

\* a payload from below $C000 whose $C000 half does not fit, two banks
C19_Witness ==
    /\ mres.op = "flash" /\ mres.exc = "SizeOverflow" /\ m_nROMs = 2
    /\ mres.addr >= 32768 /\ mres.addr < 49152
    /\ \A o \in ObsOff : m_pROM[0][o] = LoadedByte(0, o)

\* Is the byte at offset o of bank b read at a CPU address in [addr, addr + n)?
InSpan(b, o, addr, n) ==
    \/ b = 0 /\ addr <= 32768 + o /\ 32768 + o < addr + n
    \/ b = m_nROMs - 1 /\ addr <= 49152 + o /\ 49152 + o < addr + n

\* C20: a flash(addr, bytes, n) that succeeded changed only the ROM bytes at
\* the CPU addresses [addr, addr + n): every other PRG byte is what it was.
C20_FlashFrame ==
    [][ (mres'.op = "flash" /\ mres'.exc = "none" /\ left' < left) =>
            \A b \in DOMAIN m_pROM, o \in ObsOff :
                ~InSpan(b, o, mres'.addr, mres'.n) =>
                    m_pROM'[b][o] = m_pROM[b][o] ]_vars

\* C21: while the background is drawn, in NTSC and in PAL, for every row and
\* column drawn, the two indices into SCROLL_LAYOUT are 0 or 1, the index into
\* the character area is in 0..959 and the one into the attribute area in 0..63.
C21_IndexRanges ==
    (last.op = "update" /\ ~aborted /\ ppu.m_backgroundVisible) =>
        \A mode \in Modes :
            \A r \in FirstRow(mode) .. FirstRow(mode) + RowCount(mode) - 1,
               c \in 0 .. 31 :
                /\ ppu.m_scrollV + ppu.m_scrollH # 0 =>
                      /\ LayoutIndex(ppu, r, c)[1] \in {0, 1}
                      /\ LayoutIndex(ppu, r, c)[2] \in {0, 1}
                /\ TileIndc(ppu, r, c) \in 0 .. 959
                /\ TileInda(ppu, r, c) \in 0 .. 63

\* C22: for every opcode byte step() fetches, the lookup in s_opHandlers is
\* within the table, and the byte is dispatched to its handler or, having none,
\* sets the state to ERROR.
C22_DispatchTotal ==
    call.dispatch # "none" =>
        /\ call.opcode < OPCODE_COUNT
        /\ ~crashed
        /\ call.dispatch \in {"handler", "nofit", "error"}
        /\ call.dispatch = "error" => m_state = "ERROR"

====
